---- MODULE Spec2Model ----
(***************************************************************************)
(* Pixel-perfect image -> SVG converter (img2svg_pixelperfect_ui.py).      *)
(*                                                                         *)
(* Two specifications over one set of variables:                           *)
(*   SpecEnc  the run-length encoder image_to_svg_vector applied to every  *)
(*            RGBA image of at most MaxPixels pixels over Palette;         *)
(*   Spec     the application: the selection list, convert_selected,       *)
(*            clear_converted and the output directory.                    *)
(***************************************************************************)
EXTENDS Integers, Sequences, FiniteSets, TLC

VARIABLES
    img,            \* SpecEnc: the RGBA image handed to image_to_svg_vector
    out,            \* SpecEnc: the sequence of f.write calls it made
    epc,            \* SpecEnc: "ready" before the call, "done" after it
    selected_paths, \* PixelPerfectApp.selected_paths
    last_folder,    \* PixelPerfectApp.last_folder
    exists,         \* the input files that currently exist on disk
    dirExists,      \* whether OUTPUT_DIR exists
    fs,             \* the entries directly inside OUTPUT_DIR, by name
    status,         \* the class of the last message shown (_log / messagebox)
    batch,          \* list(self.selected_paths) of the last convert_selected
    converted,      \* convert_selected's list `converted` at its summary
    skipped,        \* convert_selected's list `skipped` at its summary
    errors,         \* convert_selected's list `errors` at its summary
    trace,          \* per loop iteration of the last convert_selected: what it did
                    \* (these five are emptied by a clear_converted that finds
                    \* OUTPUT_DIR: they describe the conversions since then)
    unlinked        \* per loop iteration of the last clear_converted: <<name, ok>>

vars == <<img, out, epc, selected_paths, last_folder, exists, dirExists, fs, status, batch,
          converted, skipped, errors, trace, unlinked>>

----------------------------------------------------------------------------
(* Bounds *)

\* an image of SpecEnc has at most this many pixels (w * h)
MaxPixels == 4

\* a file dialog returns at most this many paths at once
MaxPick == 2

\* RGBA quadruples the images are drawn from: opaque, two partial alphas at the
\* ends of the range, and a fully transparent pixel that still carries colour
Palette == { <<255, 0, 0, 255>>, <<255, 0, 0, 254>>, <<18, 171, 205, 1>>, <<255, 0, 0, 0>> }

Dims == { d \in (1..MaxPixels) \X (1..MaxPixels) : d[1] * d[2] <= MaxPixels }

Coords(w, h) == (0..(w - 1)) \X (0..(h - 1))

\* img.size and the pixel access object of img.load()
Images == UNION { [w : {d[1]}, h : {d[2]}, px : [Coords(d[1], d[2]) -> Palette]] : d \in Dims }

----------------------------------------------------------------------------
(* rgba_to_svg_fill and the two format specifications used on its results *)

HexDigits == <<"0", "1", "2", "3", "4", "5", "6", "7", "8", "9", "A", "B", "C", "D", "E", "F">>

\* format spec 02X on a channel value 0..255
Hex2(n) == <<HexDigits[(n \div 16) + 1], HexDigits[(n % 16) + 1]>>

\* returns the fill string and the opacity a / 255.0, kept as the exact
\* fraction <<a, 255>>
rgba_to_svg_fill(r, g, b, a) ==
    [hex |-> <<"#">> \o Hex2(r) \o Hex2(g) \o Hex2(b), opacity |-> <<a, 255>>]

\* fill_opacity < 1.0
LessThanOne(q) == q[1] < q[2]

\* q rounded to k decimals, in units of 10^-k. No a / 255 lies within float
\* error of a rounding tie, so rounding the exact fraction is what .6f prints.
Pow10(k) == IF k = 6 THEN 1000000 ELSE IF k = 2 THEN 100 ELSE 1

Rounded(q, k) == (2 * q[1] * Pow10(k) + q[2]) \div (2 * q[2])

\* the digits of n in exactly k places
RECURSIVE Digits(_, _)
Digits(n, k) == IF k = 0 THEN <<>> ELSE Digits(n \div 10, k - 1) \o <<HexDigits[(n % 10) + 1]>>

\* format spec .6f on a fraction in [0, 1]
Format6f_TwoPlaces(q) == <<HexDigits[(Rounded(q, 2) \div 100) + 1], ".">> \o Digits(Rounded(q, 2) % 100, 2)

Format6f(q) == <<HexDigits[(Rounded(q, 6) \div 1000000) + 1], ".">> \o Digits(Rounded(q, 6) % 1000000, 6)

----------------------------------------------------------------------------
(* image_to_svg_vector: the sequence of f.write calls. A write is a tuple: *)
(* <<"xml">>, <<"svg", w, h>>, <<"rect", x, y, width, fill>>,              *)
(* <<"opacity", text>>, <<"/>">>, <<"</svg>">>.                            *)

\* the inner loop: while x < w and pixels[x, y] == run colour: x += 1
RECURSIVE RunEnd(_, _, _, _)
RunEnd_NoExtend(im, y, x, c) == x

RunEnd(im, y, x, c) ==
    IF x < im.w /\ im.px[<<x, y>>] = c THEN RunEnd(im, y, x + 1, c) ELSE x

\* the three writes of one run
RectWrites(run_start, y, run_len, p) ==
    LET fill == rgba_to_svg_fill(p[1], p[2], p[3], p[4])
    IN  <<<<"rect", run_start, y, run_len, fill.hex>>>>
        \o (IF LessThanOne(fill.opacity) THEN <<<<"opacity", Format6f(fill.opacity)>>>> ELSE <<>>)
        \o <<<<"/>">>>>

\* the outer while loop of one row, from column x
RECURSIVE ScanRow_NoSkip(_, _, _)
ScanRow_NoSkip(im, y, x) ==
    IF ~(x < im.w) THEN <<>>
    ELSE LET p == im.px[<<x, y>>]
             run_start == x
             x2 == RunEnd(im, y, x + 1, p)
             run_len == x2 - run_start
         IN  RectWrites(run_start, y, run_len, p) \o ScanRow_NoSkip(im, y, x2)

RECURSIVE ScanRow(_, _, _)
ScanRow(im, y, x) ==
    IF ~(x < im.w) THEN <<>>
    ELSE LET p == im.px[<<x, y>>]
         IN  IF p[4] = 0 THEN ScanRow(im, y, x + 1)
             ELSE LET run_start == x
                      x2 == RunEnd(im, y, x + 1, p)
                      run_len == x2 - run_start
                  IN  RectWrites(run_start, y, run_len, p) \o ScanRow(im, y, x2)

\* for y in range(h)
RECURSIVE ScanRows(_, _)
ScanRows(im, y) == IF y < im.h THEN ScanRow(im, y, 0) \o ScanRows(im, y + 1) ELSE <<>>

image_to_svg_vector(im) ==
    <<<<"xml">>, <<"svg", im.w, im.h>>>> \o ScanRows(im, 0) \o <<<<"</svg>">>>>

----------------------------------------------------------------------------
(* Reading an SVG back: the rect elements of a sequence of writes and the   *)
(* picture they paint.                                                     *)

HexVal(ch) == CHOOSE i \in 0..15 : HexDigits[i + 1] = ch

ParseHex2(s, i) == 16 * HexVal(s[i]) + HexVal(s[i + 1])

\* the value of d.dddddd in units of 10^-places, for any number of places
RECURSIVE DigitsVal(_, _)
DigitsVal(s, n) == IF n = 0 THEN 0 ELSE 10 * DigitsVal(s, n - 1) + HexVal(s[n])

RECURSIVE Scale(_)
Scale(n) == IF n = 0 THEN 1 ELSE 10 * Scale(n - 1)

\* the alpha 0..255 nearest to the printed opacity
ParseOpacity(s) ==
    LET frac == SubSeq(s, 3, Len(s))
        num == HexVal(s[1]) * Scale(Len(frac)) + DigitsVal(frac, Len(frac))
    IN  (2 * 255 * num + Scale(Len(frac))) \div (2 * Scale(Len(frac)))

\* the rect elements, in document order; fill-opacity absent means opaque
Rects(ws) ==
    LET idx == { i \in 1..Len(ws) : ws[i][1] = "rect" }
        Nth(k) == CHOOSE i \in idx : Cardinality({ j \in idx : j < i }) = k - 1
        Rect(i) ==
            [x |-> ws[i][2], y |-> ws[i][3], width |-> ws[i][4],
             rgba |-> << ParseHex2(ws[i][5], 2), ParseHex2(ws[i][5], 4), ParseHex2(ws[i][5], 6),
                         IF i < Len(ws) /\ ws[i + 1][1] = "opacity"
                         THEN ParseOpacity(ws[i + 1][2]) ELSE 255 >>]
    IN  [k \in 1..Cardinality(idx) |-> Rect(Nth(k))]

Covers(r, x, y) == r.y = y /\ r.x <= x /\ x < r.x + r.width

\* the pixel at (x, y) after painting the rects in order onto a cleared buffer
Painted(rs, x, y) ==
    LET cov == { k \in 1..Len(rs) : Covers(rs[k], x, y) }
    IN  IF cov = {} THEN <<0, 0, 0, 0>>
        ELSE rs[CHOOSE k \in cov : \A j \in cov : j <= k].rgba

----------------------------------------------------------------------------
(* SpecEnc *)

DummyImage == [w |-> 1, h |-> 1, px |-> [c \in Coords(1, 1) |-> <<255, 0, 0, 255>>]]

AppIdle ==
    /\ selected_paths = <<>>
    /\ last_folder = "BASE_DIR"
    /\ exists = {}
    /\ dirExists = TRUE
    /\ fs = <<>>
    /\ status = "idle"
    /\ batch = <<>>
    /\ converted = <<>>
    /\ skipped = <<>>
    /\ errors = <<>>
    /\ trace = <<>>
    /\ unlinked = <<>>

InitEnc ==
    /\ img \in Images
    /\ out = <<>>
    /\ epc = "ready"
    /\ AppIdle

Encode ==
    /\ epc = "ready"
    /\ out' = image_to_svg_vector(img)
    /\ epc' = "done"
    /\ UNCHANGED <<img, selected_paths, last_folder, exists, dirExists, fs, status,
                   batch, converted, skipped, errors, trace, unlinked>>

NextEnc == Encode

SpecEnc == InitEnc /\ [][NextEnc]_vars

----------------------------------------------------------------------------
(* The files the application works on *)

SUPPORTED_EXT == {".png", ".jpg", ".jpeg", ".bmp", ".gif", ".tif", ".tiff", ".webp"}

\* An input path is <<folder, stem, suffix>>; a folder's path is <<folder>>.
InputFolder == "d"

InputFiles ==
    { <<"d", "a", ".png">>, <<"d", "a", ".jpg">>, <<"d", "b", ".PNG">>, <<"d", "n", ".txt">> }

\* Path.name, Path.stem, Path.suffix, Path.parent
Name(p) == <<p[2], p[3]>>

Stem(p) == p[2]

Suffix(p) == p[3]

Parent(p) == p[1]

\* str.lower on the suffixes that occur
Lower(s) == IF s = ".PNG" THEN ".png" ELSE s

\* What Image.open followed by convert("RGBA") gives for each input file: the
\* decoded image, or the stage at which a corrupt file is rejected (which of
\* the two depends on how the file is damaged).
DecodeResults(p) ==
    IF p = <<"d", "a", ".png">>
    THEN {[ok |-> TRUE, reason |-> "",
           image |-> [w |-> 2, h |-> 1,
                      px |-> [c \in Coords(2, 1) |->
                                IF c[1] = 0 THEN <<255, 0, 0, 254>> ELSE <<255, 0, 0, 0>>]]]}
    ELSE IF p = <<"d", "a", ".jpg">>
    THEN {[ok |-> TRUE, reason |-> "",
           image |-> [w |-> 1, h |-> 1, px |-> [c \in Coords(1, 1) |-> <<18, 171, 205, 255>>]]]}
    ELSE {[ok |-> FALSE, reason |-> r, image |-> DummyImage] : r \in {"Image.open", "convert"}}

\* OUTPUT_DIR / (src.stem + ".svg")
OutName(p) == <<Stem(p), ".svg">>

\* The names that occur directly inside OUTPUT_DIR
OutNames == { <<"a", ".svg">>, <<"b", ".svg">> }

\* An entry of OUTPUT_DIR: nothing, a file (its data the writes it holds; a
\* file the process may not unlink has deletable FALSE), or a subdirectory
\* (its data the names inside it; unlink always fails on it).
Absent == [kind |-> "absent", data |-> <<>>, deletable |-> FALSE]

File(data, deletable) == [kind |-> "file", data |-> data, deletable |-> deletable]

Dir(children) == [kind |-> "dir", data |-> children, deletable |-> FALSE]

Foreign == <<<<"foreign">>>>

\* OUTPUT_DIR as the program may find it at start: left by earlier runs or put
\* there by the user
InitialDirs ==
    { f \in [OutNames -> {Absent, File(Foreign, TRUE), Dir(Foreign)}] :
        /\ f[<<"a", ".svg">>] \in {Absent, File(Foreign, TRUE)}
        /\ f[<<"b", ".svg">>] \in {Absent, Dir(Foreign)} }

InSeq(x, sq) == \E i \in 1..Len(sq) : sq[i] = x

\* the sequences that list every element of S once
Perms(S) == { sq \in [1..Cardinality(S) -> S] : \A x \in S : InSeq(x, sq) }

\* the sequences of 1..n distinct elements of S
Picks(S, n) ==
    UNION { { sq \in [1..k -> S] : \A i, j \in 1..k : sq[i] = sq[j] => i = j } : k \in 1..n }

----------------------------------------------------------------------------
(* _add_paths *)

\* the loop over os.listdir(folder): fpaths are the folder's files, in the
\* order listdir gave them
RECURSIVE AddFolderFiles(_, _)
AddFolderFiles(sel, fpaths) ==
    IF fpaths = <<>> THEN sel
    ELSE LET fpath == Head(fpaths)
         IN  AddFolderFiles(
                 IF Lower(Suffix(fpath)) \in SUPPORTED_EXT /\ ~InSeq(fpath, sel)
                 THEN Append(sel, fpath) ELSE sel,
                 Tail(fpaths))

\* the loop over paths; `present` are the files on disk, `listing` is what
\* os.listdir gives for the folder
RECURSIVE AddPaths(_, _, _, _)
AddPaths(sel, paths, present, listing) ==
    IF paths = <<>> THEN sel
    ELSE LET p == Head(paths)
             sel2 == IF InSeq(p, sel) THEN sel
                     ELSE IF p = <<InputFolder>> THEN AddFolderFiles(sel, listing)
                     ELSE IF p \in present /\ Lower(Suffix(p)) \in SUPPORTED_EXT
                          THEN Append(sel, p)
                     ELSE sel
         IN  AddPaths(sel2, Tail(paths), present, listing)

AddedStatus(before, after) == IF Len(after) > Len(before) THEN "added" ELSE "none added"

\* select_files: the dialog returned `paths`
SelectFiles ==
    \E paths \in Picks(exists, MaxPick) :
        /\ last_folder' = Parent(paths[1])
        /\ selected_paths' = AddPaths(selected_paths, paths, exists, <<>>)
        /\ status' = AddedStatus(selected_paths, selected_paths')
        /\ UNCHANGED <<img, out, epc, exists, dirExists, fs, batch, converted,
                       skipped, errors, trace, unlinked>>

\* select_folder: the dialog returned the folder
SelectFolder ==
    \E listing \in Perms({ f \in exists : Parent(f) = InputFolder }) :
        /\ last_folder' = InputFolder
        /\ selected_paths' = AddPaths(selected_paths, << <<InputFolder>> >>, exists, listing)
        /\ status' = AddedStatus(selected_paths, selected_paths')
        /\ UNCHANGED <<img, out, epc, exists, dirExists, fs, batch, converted,
                       skipped, errors, trace, unlinked>>

\* a selected file is deleted or moved away before it is converted
EnvRemoveInput ==
    \E p \in exists :
        /\ InSeq(p, selected_paths)
        /\ exists' = exists \ {p}
        /\ UNCHANGED <<img, out, epc, selected_paths, last_folder, dirExists, fs, status,
                       batch, converted, skipped, errors, trace, unlinked>>

----------------------------------------------------------------------------
(* convert_selected *)

\* What one iteration of the loop did: the outcome list the path went to, why,
\* whether Image.open was called, and the entry at its output path before and
\* after the iteration.
Step(p, tag, detail, decoded, pre, post) ==
    [path |-> p, tag |-> tag, detail |-> detail, decoded |-> decoded, pre |-> pre, post |-> post]

\* the writes that are taken to fail: the first (the file is left empty) and
\* the last (the file is left with everything but the closing tag)
FailingWrites(ws) == {1, Len(ws)}

\* open(out_path, "w") and the writes of image_to_svg_vector, given the writes
\* ws it is to make: everything is written and the file closed; or open fails
\* and creates nothing; or the k-th write fails (disk full, device error) and
\* the file open() created is closed holding the writes made before it.
WriteResults(ws) ==
    {[ok |-> TRUE, reason |-> "", file |-> File(ws, TRUE)]}
    \cup {[ok |-> FALSE, reason |-> "open", file |-> Absent]}
    \cup {[ok |-> FALSE, reason |-> "write", file |-> File(SubSeq(ws, 1, k - 1), TRUE)] :
            k \in FailingWrites(ws)}

\* lines 211-213
Missing(st, p) ==
    [st EXCEPT !.errors = Append(@, <<Name(p), "missing">>),
               !.trace = Append(@, Step(p, "Error", "missing", FALSE,
                                        st.fs[OutName(p)], st.fs[OutName(p)]))]

\* lines 215-217
Skip_Truncates(st, p) ==
    [st EXCEPT !.fs[OutName(p)] = File(<<>>, TRUE),
               !.skipped = Append(@, Name(p)),
               !.trace = Append(@, Step(p, "Skipped", "exists", FALSE,
                                        st.fs[OutName(p)], File(<<>>, TRUE)))]

Skip(st, p) ==
    [st EXCEPT !.skipped = Append(@, Name(p)),
               !.trace = Append(@, Step(p, "Skipped", "exists", FALSE,
                                        st.fs[OutName(p)], st.fs[OutName(p)]))]

\* Image.open or convert("RGBA") raised: caught at line 222
DecodeFailed_LeavesFile(st, p, d) ==
    [st EXCEPT !.fs[OutName(p)] = File(<<>>, TRUE),
               !.errors = Append(@, <<Name(p), "error", d.reason>>),
               !.trace = Append(@, Step(p, "Error", d.reason, TRUE,
                                        st.fs[OutName(p)], File(<<>>, TRUE)))]

DecodeFailed(st, p, d) ==
    [st EXCEPT !.errors = Append(@, <<Name(p), "error", d.reason>>),
               !.trace = Append(@, Step(p, "Error", d.reason, TRUE,
                                        st.fs[OutName(p)], st.fs[OutName(p)]))]

\* the image decoded and image_to_svg_vector went on to open and write
Written(st, p, wr) ==
    IF wr.ok
    THEN [st EXCEPT !.fs[OutName(p)] = wr.file,
                    !.converted = Append(@, Name(p)),
                    !.trace = Append(@, Step(p, "Converted", "", TRUE,
                                             st.fs[OutName(p)], wr.file))]
    ELSE [st EXCEPT !.fs[OutName(p)] = wr.file,
                    !.errors = Append(@, <<Name(p), "error", wr.reason>>),
                    !.trace = Append(@, Step(p, "Error", wr.reason, TRUE,
                                             st.fs[OutName(p)], wr.file))]

\* lines 218-219
Convert(st, p) ==
    UNION { IF d.ok
            THEN { Written(st, p, wr) : wr \in WriteResults(image_to_svg_vector(d.image)) }
            ELSE { DecodeFailed(st, p, d) }
          : d \in DecodeResults(p) }

\* one iteration of the loop, on the files `present` on disk: the states it
\* can end in
ProcessOne_NoSkipCheck(st, p, present) ==
    IF p \notin present THEN {Missing(st, p)}
    ELSE Convert(st, p)

ProcessOne(st, p, present) ==
    IF p \notin present THEN {Missing(st, p)}
    ELSE IF st.fs[OutName(p)].kind # "absent" THEN {Skip(st, p)}
    ELSE Convert(st, p)

\* the loop over list(self.selected_paths)
RECURSIVE ProcessAll_AbortOnError(_, _, _)
ProcessAll_AbortOnError(sts, paths, present) ==
    IF paths = <<>> THEN sts
    ELSE ProcessAll_AbortOnError(
             UNION { IF st.errors # <<>> THEN {st} ELSE ProcessOne(st, Head(paths), present)
                     : st \in sts },
             Tail(paths), present)

RECURSIVE ProcessAll(_, _, _)
ProcessAll(sts, paths, present) ==
    IF paths = <<>> THEN sts
    ELSE ProcessAll(UNION { ProcessOne(st, Head(paths), present) : st \in sts },
                    Tail(paths), present)

ConvertSelected ==
    IF selected_paths = <<>>
    THEN /\ status' = "no files"
         /\ UNCHANGED <<img, out, epc, selected_paths, last_folder, exists, dirExists, fs,
                        batch, converted, skipped, errors, trace, unlinked>>
    ELSE \E st \in ProcessAll({[fs |-> fs, converted |-> <<>>, skipped |-> <<>>,
                                errors |-> <<>>, trace |-> <<>>]},
                              selected_paths, exists) :
            /\ dirExists' = TRUE
            /\ fs' = st.fs
            /\ converted' = st.converted
            /\ skipped' = st.skipped
            /\ errors' = st.errors
            /\ trace' = st.trace
            /\ batch' = selected_paths
            /\ selected_paths' = <<>>
            /\ unlinked' = <<>>
            /\ status' = "summary"
            /\ UNCHANGED <<img, out, epc, last_folder, exists>>

----------------------------------------------------------------------------
(* clear_converted *)

\* the loop over OUTPUT_DIR.iterdir(), in the order `names`: the directory
\* afterwards and, per entry, whether unlink succeeded
RECURSIVE UnlinkAll_StopAtFailure(_, _, _)
UnlinkAll_StopAtFailure(f, names, log) ==
    IF names = <<>> THEN [fs |-> f, log |-> log]
    ELSE LET n == Head(names)
         IN  IF f[n].kind = "file" /\ f[n].deletable
             THEN UnlinkAll_StopAtFailure([f EXCEPT ![n] = Absent], Tail(names),
                                          Append(log, <<n, TRUE>>))
             ELSE [fs |-> f, log |-> Append(log, <<n, FALSE>>)]

RECURSIVE UnlinkAll(_, _, _)
UnlinkAll(f, names, log) ==
    IF names = <<>> THEN [fs |-> f, log |-> log]
    ELSE LET n == Head(names)
         IN  IF f[n].kind = "file" /\ f[n].deletable
             THEN UnlinkAll([f EXCEPT ![n] = Absent], Tail(names), Append(log, <<n, TRUE>>))
             ELSE UnlinkAll(f, Tail(names), Append(log, <<n, FALSE>>))

\* OUTPUT_DIR.rmdir() succeeds when the directory is empty
IsEmptyDir(f) == \A n \in OutNames : f[n].kind = "absent"

ClearConverted ==
    IF dirExists
    THEN \E names \in Perms({ n \in OutNames : fs[n].kind # "absent" }) :
            LET r == UnlinkAll(fs, names, <<>>)
            IN  /\ fs' = r.fs
                /\ unlinked' = r.log
                /\ dirExists' = ~IsEmptyDir(r.fs)
                /\ status' = "cleared"
                /\ batch' = <<>>
                /\ converted' = <<>>
                /\ skipped' = <<>>
                /\ errors' = <<>>
                /\ trace' = <<>>
                /\ UNCHANGED <<img, out, epc, selected_paths, last_folder, exists>>
    ELSE /\ status' = "no folder"
         /\ UNCHANGED <<img, out, epc, selected_paths, last_folder, exists, dirExists, fs,
                        batch, converted, skipped, errors, trace, unlinked>>

----------------------------------------------------------------------------
(* Spec *)

\* the module body has run OUTPUT_DIR.mkdir(exist_ok=True) and __init__ has set
\* the selection empty
Init ==
    /\ img = DummyImage
    /\ out = <<>>
    /\ epc = "idle"
    /\ selected_paths = <<>>
    /\ last_folder = "BASE_DIR"
    /\ exists = InputFiles
    /\ dirExists = TRUE
    /\ fs \in InitialDirs
    /\ status = "idle"
    /\ batch = <<>>
    /\ converted = <<>>
    /\ skipped = <<>>
    /\ errors = <<>>
    /\ trace = <<>>
    /\ unlinked = <<>>

Next ==
    \/ SelectFiles
    \/ SelectFolder
    \/ EnvRemoveInput
    \/ ConvertSelected
    \/ ClearConverted

Spec == Init /\ [][Next]_vars

----------------------------------------------------------------------------
(* Claims about the encoder, checked under SpecEnc *)

RowRects(y) == SelectSeq(Rects(out), LAMBDA r : r.y = y)

NumCovering(x, y) == Cardinality({ k \in 1..Len(Rects(out)) : Covers(Rects(out)[k], x, y) })

\* C6 as stated: painting the emitted rects onto a cleared w-by-h buffer gives
\* back every pixel of the image, the pixels of alpha 0 included.
C6_RoundTripAllPixels ==
    epc = "done" =>
        \A c \in Coords(img.w, img.h) : Painted(Rects(out), c[1], c[2]) = img.px[c]

\* C6 amended: painting the emitted rects gives back every pixel of alpha > 0
\* exactly, and gives alpha 0 at every pixel of alpha 0 (whose colour channels
\* the SVG does not record).
C6_RoundTripVisiblePixels ==
    epc = "done" =>
        \A c \in Coords(img.w, img.h) :
            IF img.px[c][4] = 0
            THEN Painted(Rects(out), c[1], c[2])[4] = 0
            ELSE Painted(Rects(out), c[1], c[2]) = img.px[c]

C6_Witness ==
    /\ epc = "done"
    /\ img.h >= 2
    /\ \E c \in Coords(img.w, img.h) : img.px[c] = <<255, 0, 0, 0>>
    /\ \E k \in 1..Len(Rects(out)) : Rects(out)[k].rgba = <<255, 0, 0, 254>>
    /\ \E k \in 1..Len(Rects(out)) : Rects(out)[k].rgba = <<18, 171, 205, 1>>
    /\ \E k \in 1..Len(Rects(out)) : Rects(out)[k].rgba[4] = 255

\* C7: on every row the emitted rects have width >= 1, lie inside [0, w), come
\* in strictly ascending start column without overlapping, and every column is
\* covered by exactly one rect if its pixel has alpha > 0 and by none if its
\* pixel has alpha 0; every rect lies on a row of the image.
C7_RunPartition ==
    epc = "done" =>
        /\ \A k \in 1..Len(Rects(out)) : Rects(out)[k].y \in 0..(img.h - 1)
        /\ \A y \in 0..(img.h - 1) :
            /\ \A k \in 1..Len(RowRects(y)) :
                /\ RowRects(y)[k].width >= 1
                /\ RowRects(y)[k].x >= 0
                /\ RowRects(y)[k].x + RowRects(y)[k].width <= img.w
            /\ \A k \in 1..(Len(RowRects(y)) - 1) :
                /\ RowRects(y)[k].x < RowRects(y)[k + 1].x
                /\ RowRects(y)[k].x + RowRects(y)[k].width <= RowRects(y)[k + 1].x
            /\ \A x \in 0..(img.w - 1) :
                NumCovering(x, y) = (IF img.px[<<x, y>>][4] = 0 THEN 0 ELSE 1)

C7_Witness ==
    /\ epc = "done"
    /\ img.w = 4
    /\ Len(RowRects(0)) = 2
    /\ RowRects(0)[1].width = 2
    /\ img.px[<<2, 0>>][4] = 0
    /\ RowRects(0)[2].x = 3

\* C8: no two rects of a row of which the second starts where the first ends
\* have the same RGBA colour, and every run stops only at the row boundary or
\* at a pixel that differs from the run's colour (a transparent one included).
C8_RunMaximality ==
    epc = "done" =>
        \A y \in 0..(img.h - 1) :
            /\ \A j, k \in 1..Len(RowRects(y)) :
                RowRects(y)[k].x = RowRects(y)[j].x + RowRects(y)[j].width
                    => RowRects(y)[j].rgba # RowRects(y)[k].rgba
            /\ \A k \in 1..Len(RowRects(y)) :
                LET r == RowRects(y)[k]
                    e == r.x + r.width
                IN  e >= img.w \/ img.px[<<e, y>>] # img.px[<<r.x, y>>]

C8_Witness ==
    /\ epc = "done"
    /\ img.w >= 3
    /\ \E j, k \in 1..Len(RowRects(0)) :
        /\ RowRects(0)[j].width >= 2
        /\ RowRects(0)[k].x = RowRects(0)[j].x + RowRects(0)[j].width
        /\ RowRects(0)[k].rgba[4] = 254
        /\ RowRects(0)[j].rgba[4] = 255

----------------------------------------------------------------------------
(* Claims about the application, checked under Spec *)

APng == <<"d", "a", ".png">>

AJpg == <<"d", "a", ".jpg">>

BPng == <<"d", "b", ".PNG">>

Decodable(p) == \A d \in DecodeResults(p) : d.ok

\* the SVG file a complete conversion of p leaves
FullSvg(p) == File(image_to_svg_vector((CHOOSE d \in DecodeResults(p) : d.ok).image), TRUE)

\* a step in which convert_selected ran its loop
IsConvertStep == selected_paths # <<>> /\ selected_paths' = <<>>

\* a step in which clear_converted found OUTPUT_DIR
IsClearStep == status' = "cleared" /\ exists' = exists /\ selected_paths' = selected_paths

\* the same path processed in two successive runs of convert_selected with no
\* clear_converted between them: i in the earlier, j in the later
SameInputTwice(i, j) ==
    /\ trace[i].path = trace'[j].path
    /\ trace[i].detail # "missing"
    /\ trace'[j].detail # "missing"
    /\ Decodable(trace[i].path)
    /\ trace[i].pre.kind = "absent"

\* C1 as stated: an existing, decodable input whose output path does not exist
\* is Converted when first processed and Skipped when processed again with no
\* clear_converted in between, and the SVG file is the same after both.
C1_ConvertedThenSkipped ==
    [][IsConvertStep =>
        \A i \in DOMAIN trace : \A j \in DOMAIN trace' :
            SameInputTwice(i, j) =>
                /\ trace[i].tag = "Converted"
                /\ trace'[j].tag = "Skipped"
                /\ trace'[j].post = trace[i].post]_vars

\* C1 amended: when the first processing is Converted, the file holds the
\* complete SVG, the second processing is Skipped without decoding and the file
\* is the same after both. Otherwise the first processing is Error because
\* open or a write failed; the second is then Skipped exactly when a file is at
\* the output path, and a file the failed write left is the same after both.
C1_Idempotence ==
    [][IsConvertStep =>
        \A i \in DOMAIN trace : \A j \in DOMAIN trace' :
            SameInputTwice(i, j) =>
                /\ trace[i].tag = "Converted" =>
                    /\ trace[i].post = FullSvg(trace[i].path)
                    /\ trace'[j].tag = "Skipped"
                    /\ ~trace'[j].decoded
                    /\ trace'[j].post = trace[i].post
                /\ trace[i].tag # "Converted" =>
                    /\ trace[i].tag = "Error"
                    /\ trace[i].detail \in {"open", "write"}
                    /\ (trace'[j].tag = "Skipped") = (trace'[j].pre.kind # "absent")
                    /\ trace[i].post.kind # "absent" =>
                        /\ trace'[j].tag = "Skipped"
                        /\ trace'[j].post = trace[i].post]_vars

C1_Witness ==
    /\ status = "summary"
    /\ \E j \in DOMAIN trace :
        /\ trace[j].path = APng
        /\ trace[j].tag = "Skipped"
        /\ trace[j].pre = FullSvg(APng)
        /\ fs[OutName(APng)] = FullSvg(APng)

\* C2: whenever an existing input whose output path already exists is
\* processed, it is Skipped, Image.open is not called, and the entry at the
\* output path is left as it was.
C2_NeverOverwritten ==
    \A i \in DOMAIN trace :
        (trace[i].detail # "missing" /\ trace[i].pre.kind # "absent") =>
            /\ trace[i].tag = "Skipped"
            /\ ~trace[i].decoded
            /\ trace[i].post = trace[i].pre
            /\ InSeq(Name(trace[i].path), skipped)

C2_Witness ==
    /\ status = "summary"
    /\ \E i \in DOMAIN trace :
        /\ trace[i].tag = "Skipped"
        /\ trace[i].pre = File(Foreign, TRUE)
        /\ fs[OutName(trace[i].path)] = File(Foreign, TRUE)

\* C3: for every path that got as far as writing, either it is Converted and
\* the output file holds the complete SVG, or it is Error and no file is at the
\* output path afterwards.
C3_AtomicWrite ==
    \A i \in DOMAIN trace :
        (trace[i].decoded /\ Decodable(trace[i].path)) =>
            \/ trace[i].tag = "Converted" /\ trace[i].post = FullSvg(trace[i].path)
            \/ trace[i].tag = "Error" /\ trace[i].post.kind = "absent"

\* C4: when an existing input whose output path does not exist fails to decode
\* (at Image.open or at the RGBA conversion), it is Error with the failure's
\* message and no file is at the output path afterwards.
C4_DecodeFailureNoArtifact ==
    \A i \in DOMAIN trace :
        (trace[i].detail # "missing" /\ trace[i].pre.kind = "absent"
            /\ ~Decodable(trace[i].path)) =>
            /\ trace[i].tag = "Error"
            /\ trace[i].detail \in {"Image.open", "convert"}
            /\ InSeq(<<Name(trace[i].path), "error", trace[i].detail>>, errors)
            /\ trace[i].post.kind = "absent"

C4_Witness ==
    /\ status = "summary"
    /\ \E i \in DOMAIN trace :
        /\ trace[i].path = BPng
        /\ trace[i].tag = "Error"
        /\ trace[i].detail = "convert"
        /\ fs[OutName(BPng)].kind = "absent"

\* the names the loop put on one of its three lists, in order
NamesTagged(tag) ==
    LET sel == SelectSeq(trace, LAMBDA e : e.tag = tag)
    IN  [k \in 1..Len(sel) |-> Name(sel[k].path)]

\* C5: a batch gives every selected path exactly one outcome, in input order:
\* the i-th iteration is about the i-th path, its outcome is Converted,
\* Skipped or Error, the three lists hold just the paths of their outcome, and
\* a path is Error only for its own missing input, decode failure or write
\* failure, whatever happened to the paths before it.
C5_OneOutcomePerPath ==
    /\ Len(trace) = Len(batch)
    /\ \A i \in DOMAIN trace :
        /\ trace[i].path = batch[i]
        /\ trace[i].tag \in {"Converted", "Skipped", "Error"}
        /\ (trace[i].tag = "Error") =
            (trace[i].detail \in {"missing", "Image.open", "convert", "open", "write"})
    /\ converted = NamesTagged("Converted")
    /\ skipped = NamesTagged("Skipped")
    /\ [k \in 1..Len(errors) |-> errors[k][1]] = NamesTagged("Error")
    /\ Len(converted) + Len(skipped) + Len(errors) = Len(batch)

C5_Witness ==
    /\ status = "summary"
    /\ Len(batch) = 3
    /\ trace[1].tag = "Error" /\ trace[1].detail = "write"
    /\ trace[2].tag = "Error" /\ trace[2].detail = "missing"
    /\ trace[3].tag = "Error" /\ trace[3].detail = "Image.open"

\* C9: clear_converted tries every entry directly inside OUTPUT_DIR once; every
\* entry unlink can delete is gone afterwards, whatever failed before it; an
\* entry unlink fails on, a subdirectory with what is in it included, is left
\* as it was; and OUTPUT_DIR is gone afterwards exactly when nothing is left in
\* it.
C9_BestEffortClear ==
    [][(IsClearStep /\ dirExists) =>
        /\ \A n \in OutNames :
            /\ (fs[n].kind = "file" /\ fs[n].deletable) => fs'[n] = Absent
            /\ ~(fs[n].kind = "file" /\ fs[n].deletable) => fs'[n] = fs[n]
            /\ Cardinality({ k \in DOMAIN unlinked' : unlinked'[k][1] = n })
                = (IF fs[n].kind = "absent" THEN 0 ELSE 1)
        /\ dirExists' = (\E n \in OutNames : fs'[n].kind # "absent")]_vars

C9_Witness ==
    /\ status = "cleared"
    /\ dirExists
    /\ Len(unlinked) = 2
    /\ unlinked[1][2] = FALSE
    /\ unlinked[2][2] = TRUE
    /\ fs[<<"b", ".svg">>] = Dir(Foreign)
    /\ fs[<<"a", ".svg">>] = Absent

\* two distinct existing, decodable inputs of one batch with the same stem, i
\* before j, with no output for the stem when i is reached
StemCollision(i, j) ==
    /\ i < j
    /\ trace[i].path # trace[j].path
    /\ OutName(trace[i].path) = OutName(trace[j].path)
    /\ trace[i].detail # "missing"
    /\ trace[j].detail # "missing"
    /\ Decodable(trace[i].path)
    /\ Decodable(trace[j].path)
    /\ trace[i].pre.kind = "absent"

\* C10 as stated: of two inputs of a batch with the same stem the earlier is
\* Converted and the later Skipped without being decoded; the output holds the
\* earlier one's SVG and is not modified when the later one is processed.
C10_EarlierConvertedLaterSkipped ==
    \A i \in DOMAIN trace : \A j \in DOMAIN trace :
        StemCollision(i, j) =>
            /\ trace[i].tag = "Converted"
            /\ trace[i].post = FullSvg(trace[i].path)
            /\ trace[j].tag = "Skipped"
            /\ ~trace[j].decoded
            /\ trace[j].pre = trace[i].post
            /\ trace[j].post = trace[j].pre

\* C10 amended: when the earlier is Converted, the later is Skipped without
\* being decoded and the output holds the earlier one's SVG, unmodified by the
\* later. Otherwise the earlier is Error because open or a write failed; the
\* later is then Skipped, leaving the file as it is, when the failed write left
\* a file, and is decoded and converted in its own right when it left none.
C10_StemCollision ==
    \A i \in DOMAIN trace : \A j \in DOMAIN trace :
        StemCollision(i, j) =>
            /\ trace[i].tag = "Converted" =>
                /\ trace[i].post = FullSvg(trace[i].path)
                /\ trace[j].tag = "Skipped"
                /\ ~trace[j].decoded
                /\ trace[j].pre = trace[i].post
                /\ trace[j].post = trace[j].pre
            /\ trace[i].tag # "Converted" =>
                /\ trace[i].tag = "Error"
                /\ trace[i].detail \in {"open", "write"}
                /\ trace[j].pre = trace[i].post
                /\ trace[i].post.kind # "absent" =>
                    /\ trace[j].tag = "Skipped"
                    /\ ~trace[j].decoded
                    /\ trace[j].post = trace[j].pre
                /\ trace[i].post.kind = "absent" =>
                    /\ trace[j].decoded
                    /\ trace[j].tag \in {"Converted", "Error"}

C10_Witness ==
    /\ status = "summary"
    /\ \E i \in DOMAIN trace : \E j \in DOMAIN trace :
        /\ StemCollision(i, j)
        /\ trace[i].path = AJpg
        /\ trace[i].tag = "Converted"
        /\ trace[j].path = APng
        /\ trace[j].tag = "Skipped"
        /\ fs[OutName(APng)] = FullSvg(AJpg)

====
